---- MODULE Spec2Model ----
(***************************************************************************)
(* The transaction-count pipeline of solana-txn-count: withRetry,          *)
(* getStakeAccountsForAddress, getAssociatedStakeAccounts,                 *)
(* getSignaturesForAddress and getTotalTransactionCount, in the two        *)
(* versions the repository holds:                                          *)
(*   impl = "retry"  src/unnamed/part_001 (every remote call in withRetry) *)
(*   impl = "index"  src/index.js         (no retry, no try/catch)         *)
(*                                                                         *)
(* One action is one turn of the JavaScript event loop: the code that runs *)
(* between two awaits (an RPC answer or a timer).  The side effects of a   *)
(* turn (console output, timers set, RPC calls issued) are recorded, in    *)
(* program order, in the variable events, which holds the effects of the   *)
(* last turn only.  The ledger RPC service is the environment.             *)
(***************************************************************************)
EXTENDS Integers, Sequences, FiniteSets, TLC

(***************************************************************************)
(* Bounds of the model.                                                    *)
(***************************************************************************)
\* The page size the model uses in place of limit: 1000 (part_001:107,
\* index.js:88).  The code only compares a batch's length with it.
PageLimit == 2
\* Longest signature history of the getSignaturesForAddress specifications.
MaxHistory == 5
\* Longest address list handed to getTotalTransactionCount.
MaxAddresses == 3
\* Largest maxAttempts handed to withRetry in the withRetry specification.
MaxAttemptsTried == 20
\* Longest address file, in tokens (see FileChars).
MaxFileLen == 5

(***************************************************************************)
(* Program constants.                                                      *)
(***************************************************************************)
DefaultMaxAttempts == 20        \* part_001:5   maxAttempts = 20
DefaultDelay == 1000            \* part_001:5   delay = 1000
StakeMaxAttempts == 3           \* part_001:50  maxAttempts = 3
StakeDelay == 1000              \* part_001:51  delay = 1000
IndexStakeMaxAttempts == 1      \* index.js:27  maxAttempts = 1
IndexStakeDelay == 1000         \* index.js:28  delay = 1000
Null == 0                       \* part_001:102 lastSignature = null

Accounts == {"A", "S", "T"}
\* An authority that is no account of the model.
Other == "other"
\* What a rejected RPC call throws.
Errors == {"timeout", "rate limit"}
\* What a rejected fs.promises.readFile throws.
FileErrors == {"ENOENT"}
\* The content of the address file is a sequence of tokens: "A" and "S" are
\* the base58 text of the accounts A and S, "x" is text that is no part of
\* an address, " " is a blank and "\n" the line feed.
FileChars == {"A", "S", "x", " ", "\n"}

VARIABLES
  \* the environment: the program's version, the entry point called and
  \* the ledger
  impl, entry, addresses, stakeAccts, authority, history,
  file,                    \* the content of the address file
  changed,                 \* history variable: the ledger changed since Init
  \* the program
  phase,                   \* the call of the aggregator body in progress
  await,                   \* what the program is suspended on
  idx,                     \* position of the for loop over addresses
  accountInfo,             \* accountInfo?.value?.data?.program
  branch,                  \* the branch of the if chain taken
  target,                  \* the address of getSignaturesForAddress
  signatures, lastSignature,
  associatedStakeAccounts, k,
  totalTransactions,
  stack,                   \* the withRetry calls in progress, innermost last
  scanAttempt,             \* attempt of index.js getStakeAccountsForAddress
  result,                  \* how the entry point ended
  \* history variables
  batches,                 \* the batches fetched by the current attempt
  events,                  \* the effects of the last turn, in order
  outcomes,                \* per finished address: failed or not, amount added
  startTotal,              \* totalTransactions when the address was started
  refetched,               \* an attempt of the fetch in progress failed
                           \* after it had fetched a batch
  found,                   \* what the scan of the first hasStakeAccount of
                           \* the address returned
  counted                  \* the accounts whose history length was added

envVars == <<impl, entry, addresses, stakeAccts, authority, history, file,
             changed>>
progVars == <<phase, await, idx, accountInfo, branch, target, signatures,
              lastSignature, associatedStakeAccounts, k, totalTransactions,
              stack, scanAttempt, result, batches, events, outcomes,
              startTotal, refetched, found, counted>>
vars == <<envVars, progVars>>

(***************************************************************************)
(* Helpers.                                                                *)
(***************************************************************************)
Min(a, b) == IF a <= b THEN a ELSE b

Last(q) == q[Len(q)]

\* The sequences that list the set S once each: the orders in which a scan
\* can return its matches.
Orders(S) ==
  {f \in [1..Cardinality(S) -> S] : \A i, j \in 1..Cardinality(S) : f[i] = f[j] => i = j}

\* A history of n records, newest first: signatures n, n-1, ..., 1.
Desc(n) == [i \in 1..n |-> n + 1 - i]

RECURSIVE Flatten(_)
Flatten(bs) == IF bs = <<>> THEN <<>> ELSE Head(bs) \o Flatten(Tail(bs))

\* The program state as one record, for the functions below.
Cur ==
  [impl |-> impl, entry |-> entry, addresses |-> addresses,
   phase |-> phase, await |-> await, idx |-> idx, accountInfo |-> accountInfo,
   branch |-> branch, target |-> target, signatures |-> signatures,
   lastSignature |-> lastSignature,
   associatedStakeAccounts |-> associatedStakeAccounts, k |-> k,
   totalTransactions |-> totalTransactions, stack |-> stack,
   scanAttempt |-> scanAttempt, result |-> result, batches |-> batches,
   events |-> events, outcomes |-> outcomes, startTotal |-> startTotal,
   refetched |-> refetched, found |-> found, counted |-> counted]

\* An effect of a turn.
\* type: what happened; n, m, f, w: the numbers that go with it (of a
\* withRetry call that ends: invocations, maxAttempts, failures, waits);
\* e: the error or the text.
Ev(type, n, m, f, w, e) ==
  [ev |-> type, n |-> n, m |-> m, f |-> f, w |-> w, e |-> e]
Emit(s, e) == [s EXCEPT !.events = Append(@, e)]

Top(s) == s.stack[Len(s.stack)]
SetTop(s, f) == [s EXCEPT !.stack[Len(s.stack)] = f]
Pop(s) == [s EXCEPT !.stack = SubSeq(@, 1, Len(@) - 1)]

(***************************************************************************)
(* The ledger RPC service.                                                 *)
(***************************************************************************)
\* getParsedAccountInfo: the program that owns the account.
LedgerProgram(a) == IF a \in stakeAccts THEN "stake" ELSE "system"

\* getProgramAccounts(StakeProgram.programId, dataSize 200, memcmp offset 44
\* = address): the stake accounts whose authority field holds the address.
LedgerStakeAccounts(a) == {x \in stakeAccts : authority[x] = a}

\* getSignaturesForAddress(before, limit): the up to limit newest records
\* strictly older than before, all records when before is null.
LedgerSignatures(h, before, limit) ==
  LET from == IF before = Null THEN 1
              ELSE IF \E i \in 1..Len(h) : h[i] = before
                   THEN (CHOOSE i \in 1..Len(h) : h[i] = before) + 1
                   ELSE Len(h) + 1
  IN SubSeq(h, from, Min(Len(h), from + limit - 1))

(***************************************************************************)
(* withRetry (part_001:5-25).                                              *)
(***************************************************************************)
\* A withRetry call: its parameters, loop variable and lastError, and as
\* history the invocations of the operation, its failures and the waits.
NewFrame(maxAttempts, delay) ==
  [max |-> maxAttempts, attempt |-> 1, delay |-> delay, lastError |-> "none",
   initialDelay |-> delay, calls |-> 0, fails |-> 0, waits |-> <<>>]

IssueRpc(s, method) ==
  Emit([s EXCEPT !.await = "rpc"], Ev("rpc", s.idx, 0, 0, 0, method))

\* await fs.promises.readFile(filePath, 'utf8') (part_001:122-123,
\* index.js:104).
IssueRead(s) ==
  Emit([s EXCEPT !.await = "file", !.addresses = <<>>],
       Ev("read", 0, 0, 0, 0, "readFile"))

\* Faulty variant: signatures and lastSignature are declared outside the callback
\* and keep what a failed attempt left in them.
SigsBeginKeeps(s) ==
  IssueRpc([s EXCEPT !.batches = <<>>], "getSignaturesForAddress")

\* The body of the async callback of getSignaturesForAddress up to its first
\* await (part_001:99-105, index.js:80-86).
SigsBegin(s) ==
  IssueRpc([s EXCEPT !.signatures = <<>>, !.lastSignature = Null,
                     !.batches = <<>>],
           "getSignaturesForAddress")

RECURSIVE Invoke(_)

\* withRetry up to the first await: the loop is entered with attempt = 1.
WithRetry(s, maxAttempts, delay) ==
  Invoke([s EXCEPT !.stack = Append(@, NewFrame(maxAttempts, delay))])

\* getStakeAccountsForAddress up to its first await (part_001:47-55,
\* index.js:24-33).
GetStakeAccountsForAddress(s) ==
  IF s.impl = "retry"
  THEN WithRetry(s, StakeMaxAttempts, StakeDelay)
  ELSE IssueRpc([s EXCEPT !.scanAttempt = 0], "getProgramAccounts")

\* The operation handed to the innermost withRetry in progress.
Operation(s) ==
  CASE s.phase = "info" -> IssueRpc(s, "getParsedAccountInfo")
    [] s.phase = "read" -> IssueRead(s)
    [] s.phase \in {"has1", "has2"} -> IssueRpc(s, "getProgramAccounts")
    [] s.phase \in {"own", "stake"} -> SigsBegin(s)
    [] s.phase = "assoc" ->
         IF Len(s.stack) = 1
         THEN GetStakeAccountsForAddress(s)
         ELSE IssueRpc(s, "getProgramAccounts")

\* part_001:8-10: one iteration of the loop calls the operation.
Invoke(s) ==
  LET f == Top(s)
  IN Operation(Emit(SetTop(s, [f EXCEPT !.calls = @ + 1]),
                    Ev("invoke", f.attempt, f.max, 0, 0, "")))

\* part_001:10: return await operation(), the operation having succeeded.
WithRetryReturn(s) ==
  LET f == Top(s)
  IN Emit(Pop(s), Ev("return", f.calls, f.max, f.fails, Len(f.waits), ""))

\* Faulty variant: the delay is not doubled.
WithRetryResumeFixedDelay(s) ==
  LET f == Top(s)
  IN Invoke(SetTop(s, [f EXCEPT !.attempt = @ + 1]))

\* part_001:17-19 after the wait, and the loop's attempt++ and test.
WithRetryResume(s) ==
  LET f == Top(s)
  IN Invoke(SetTop(s, [f EXCEPT !.delay = @ * 2, !.attempt = @ + 1]))


(***************************************************************************)
(* getTotalTransactionCount (part_001:139-203, index.js:121-194).          *)
(***************************************************************************)
\* The entry point ends: it returns, or it throws what it did not catch.
Finish(s, status, error) ==
  [s EXCEPT !.phase = "done", !.await = "none",
            !.result = [status |-> status, error |-> error]]

\* main after getTotalTransactionCount returned (part_001:215-216,
\* index.js:202-206).
MainReturns(s) ==
  Emit(Finish(s, "returned", ""),
       Ev("log", s.totalTransactions, 0, 0, 0, "Total transactions"))

\* The head of the for loop and the body up to the account lookup
\* (part_001:142-147, index.js:124-128); after the last address, the return
\* (part_001:202, index.js:193).
StartAddress(s) ==
  IF s.idx > Len(s.addresses)
  THEN IF s.entry = "main" THEN MainReturns(s) ELSE Finish(s, "returned", "")
  ELSE LET s1 == Emit([s EXCEPT !.phase = "info",
                                !.target = s.addresses[s.idx],
                                !.accountInfo = "none", !.branch = "none",
                                !.associatedStakeAccounts = <<>>, !.k = 0,
                                !.startTotal = s.totalTransactions,
                                !.refetched = FALSE, !.found = <<>>],
                      Ev("log", s.idx, 0, 0, 0, "Processing address"))
       IN IF s.impl = "retry"
          THEN WithRetry(s1, DefaultMaxAttempts, DefaultDelay)
          ELSE IssueRpc(s1, "getParsedAccountInfo")

\* The end of the loop body without an exception (part_001:193-194,
\* index.js:190) and the step to the next address.
EndAddress(s) ==
  StartAddress(
    Emit([s EXCEPT !.outcomes = Append(@, [failed |-> FALSE,
                      added |-> s.totalTransactions - s.startTotal]),
                   !.idx = @ + 1],
         Ev("log", s.idx, s.totalTransactions, 0, 0, "Accumulating total transactions")))

\* Faulty variant: the loop body has no catch block, the exception leaves the
\* function.
AggregatorCatchRethrows(s, error) ==
  [s EXCEPT !.phase = "done", !.await = "none",
            !.result = [status |-> "threw", error |-> error]]

\* Faulty variant: the catch block takes back what the failed address added.
AggregatorCatchRollsBack(s, error) ==
  StartAddress(
    Emit([s EXCEPT !.outcomes = Append(@, [failed |-> TRUE, added |-> 0]),
                   !.totalTransactions = s.startTotal,
                   !.idx = @ + 1],
         Ev("error", s.idx, 0, 0, 0, error)))

\* The catch block of the loop body (part_001:196-199).
AggregatorCatch(s, error) ==
  StartAddress(
    Emit([s EXCEPT !.outcomes = Append(@, [failed |-> TRUE,
                      added |-> s.totalTransactions - s.startTotal]),
                   !.idx = @ + 1],
         Ev("error", s.idx, 0, 0, 0, error)))

\* Faulty variant: the catch block of main logs the error and main returns.
MainCatchReturns(s, error) ==
  Emit(Finish(s, "returned", ""), Ev("fatal", 0, 0, 0, 0, error))

\* The catch block of main (part_001:217-220): process.exit(1).
MainCatch(s, error) ==
  Emit(Finish(s, "exit", error), Ev("fatal", 1, 0, 0, 0, error))

\* An exception that no withRetry in progress handles.  One thrown by
\* readAddressesFromFile (index.js:114-116 wraps it in a new Error) reaches
\* the catch block of main in part_001 and nothing in index.js; one thrown
\* while an address is processed is caught by the loop body of part_001,
\* and by nothing in index.js.
Uncaught(s, error) ==
  IF s.phase = "read"
  THEN IF s.entry = "main" /\ s.impl = "retry"
       THEN MainCatch(s, error)
       ELSE Finish(s, "threw",
                   IF s.impl = "index" THEN "Error reading file" ELSE error)
  ELSE IF s.entry \in {"getTotalTransactionCount", "main"} /\ s.impl = "retry"
       THEN AggregatorCatch(s, error)
       ELSE Finish(s, "threw", error)

\* Faulty variant: the catch block waits and retries after the last attempt too
\* (attempt <= maxAttempts).
RECURSIVE WithRetryCatchOneMore(_, _)
WithRetryCatchOneMore(s, error) ==
  LET f == [Top(s) EXCEPT !.lastError = error, !.fails = @ + 1]
      s1 == Emit(SetTop(s, f), Ev("report", f.attempt, f.max, 0, 0, error))
  IN IF f.attempt <= f.max
     THEN Emit([SetTop(s1, [f EXCEPT !.waits = Append(@, f.delay)])
                  EXCEPT !.await = "timer"],
               Ev("wait", f.delay, f.attempt, 0, 0, ""))
     ELSE LET s2 == Emit(Pop(s1), Ev("throw", f.calls, f.max, f.fails, Len(f.waits), f.lastError))
          IN IF s2.stack # <<>>
             THEN WithRetryCatchOneMore(s2, f.lastError)
             ELSE Uncaught(s2, f.lastError)

\* Faulty variant: the failure of the last attempt is thrown without being reported.
RECURSIVE WithRetryCatchSilentLast(_, _)
WithRetryCatchSilentLast(s, error) ==
  LET f == [Top(s) EXCEPT !.lastError = error, !.fails = @ + 1]
      s1 == SetTop(s, f)
  IN IF f.attempt < f.max
     THEN Emit([SetTop(Emit(s1, Ev("report", f.attempt, f.max, 0, 0, error)),
                       [f EXCEPT !.waits = Append(@, f.delay)])
                  EXCEPT !.await = "timer"],
               Ev("wait", f.delay, f.attempt, 0, 0, ""))
     ELSE LET s2 == Emit(Pop(s1), Ev("throw", f.calls, f.max, f.fails, Len(f.waits), f.lastError))
          IN IF s2.stack # <<>>
             THEN WithRetryCatchSilentLast(s2, f.lastError)
             ELSE Uncaught(s2, f.lastError)

\* part_001:11-24: the catch block, the end of the loop and the throw.
RECURSIVE WithRetryCatch(_, _)
WithRetryCatch(s, error) ==
  LET f == [Top(s) EXCEPT !.lastError = error, !.fails = @ + 1]
      s1 == Emit(SetTop(s, f), Ev("report", f.attempt, f.max, 0, 0, error))
  IN IF f.attempt < f.max
     THEN Emit([SetTop(s1, [f EXCEPT !.waits = Append(@, f.delay)])
                  EXCEPT !.await = "timer"],
               Ev("wait", f.delay, f.attempt, 0, 0, ""))
     ELSE LET s2 == Emit(Pop(s1), Ev("throw", f.calls, f.max, f.fails, Len(f.waits), f.lastError))
          IN IF s2.stack # <<>>
             THEN WithRetryCatch(s2, f.lastError)
             ELSE Uncaught(s2, f.lastError)

\* getSignaturesForAddress up to its first await (part_001:93-105,
\* index.js:75-86).
GetSignaturesForAddress(s, address, ph) ==
  LET s1 == [s EXCEPT !.phase = ph, !.target = address, !.refetched = FALSE]
  IN IF s.impl = "retry"
     THEN WithRetry(s1, DefaultMaxAttempts, DefaultDelay)
     ELSE SigsBegin(s1)

\* hasStakeAccount up to its first await (part_001:41-42, index.js:18-19).
HasStakeAccount(s, ph) == GetStakeAccountsForAddress([s EXCEPT !.phase = ph])

\* getAssociatedStakeAccounts up to its first await (part_001:80-82,
\* index.js:64-65).
GetAssociatedStakeAccounts(s) ==
  LET s1 == [s EXCEPT !.phase = "assoc"]
  IN IF s.impl = "retry"
     THEN WithRetry(s1, DefaultMaxAttempts, DefaultDelay)
     ELSE GetStakeAccountsForAddress(s1)

\* The for loop over associatedStakeAccounts (part_001:168-173,
\* index.js:157-162).
StakeLoop(s) ==
  IF s.k <= Len(s.associatedStakeAccounts)
  THEN GetSignaturesForAddress(s, s.associatedStakeAccounts[s.k], "stake")
  ELSE EndAddress(s)

\* Faulty variant: the total is assigned (=) where the code adds (+=).
AfterSignaturesAssigns(s) ==
  IF s.entry = "getSignaturesForAddress"
  THEN Finish(s, "returned", "")
  ELSE LET s1 == [s EXCEPT !.totalTransactions = Len(s.signatures),
                           !.counted = Append(@, s.target),
                           !.refetched = FALSE]
       IN CASE s.phase = "own" /\ s.branch = "authority" ->
                 GetAssociatedStakeAccounts(s1)
            [] s.phase = "own" /\ s.branch # "authority" -> EndAddress(s1)
            [] s.phase = "stake" -> StakeLoop([s1 EXCEPT !.k = @ + 1])

\* What follows a getSignaturesForAddress that returned { signatures }
\* (part_001:152, 161-163, 174; index.js:134, 150-152, 163).
AfterSignatures(s) ==
  IF s.entry = "getSignaturesForAddress"
  THEN Finish(s, "returned", "")
  ELSE LET s1 == [s EXCEPT !.totalTransactions = @ + Len(s.signatures),
                           !.counted = Append(@, s.target),
                           !.refetched = FALSE]
       IN CASE s.phase = "own" /\ s.branch = "authority" ->
                 GetAssociatedStakeAccounts(s1)
            [] s.phase = "own" /\ s.branch # "authority" -> EndAddress(s1)
            [] s.phase = "stake" -> StakeLoop([s1 EXCEPT !.k = @ + 1])

\* Faulty variant: the batch replaces the accumulator (signatures = fetched).
OnSignaturesOverwrites(s, fetchedSignatures) ==
  LET s1 == [s EXCEPT !.signatures = fetchedSignatures,
                      !.lastSignature =
                         IF Len(fetchedSignatures) > 0
                         THEN Last(fetchedSignatures) ELSE Null,
                      !.batches = Append(@, fetchedSignatures)]
  IN IF Len(fetchedSignatures) = PageLimit
     THEN IssueRpc(s1, "getSignaturesForAddress")
     ELSE AfterSignatures(IF s.impl = "retry" THEN WithRetryReturn(s1) ELSE s1)

\* Faulty variant: the cursor is the first (newest) record of the batch.
OnSignaturesFirstCursor(s, fetchedSignatures) ==
  LET s1 == [s EXCEPT !.signatures = @ \o fetchedSignatures,
                      !.lastSignature =
                         IF Len(fetchedSignatures) > 0
                         THEN Head(fetchedSignatures) ELSE Null,
                      !.batches = Append(@, fetchedSignatures)]
  IN IF Len(fetchedSignatures) = PageLimit
     THEN IssueRpc(s1, "getSignaturesForAddress")
     ELSE AfterSignatures(IF s.impl = "retry" THEN WithRetryReturn(s1) ELSE s1)

\* Faulty variant: the cursor is never set, every fetch asks for the newest page.
OnSignaturesNullCursor(s, fetchedSignatures) ==
  LET s1 == [s EXCEPT !.signatures = @ \o fetchedSignatures,
                      !.lastSignature = Null,
                      !.batches = Append(@, fetchedSignatures)]
  IN IF Len(fetchedSignatures) = PageLimit
     THEN IssueRpc(s1, "getSignaturesForAddress")
     ELSE AfterSignatures(IF s.impl = "retry" THEN WithRetryReturn(s1) ELSE s1)

\* The do-while loop after a fetch answered (part_001:105-116,
\* index.js:86-97).
OnSignatures(s, fetchedSignatures) ==
  LET s1 == [s EXCEPT !.signatures = @ \o fetchedSignatures,
                      !.lastSignature =
                         IF Len(fetchedSignatures) > 0
                         THEN Last(fetchedSignatures) ELSE Null,
                      !.batches = Append(@, fetchedSignatures)]
  IN IF Len(fetchedSignatures) = PageLimit
     THEN IssueRpc(s1, "getSignaturesForAddress")
     ELSE AfterSignatures(IF s.impl = "retry" THEN WithRetryReturn(s1) ELSE s1)

\* Faulty variant: the owning program is not looked at, every address goes
\* on to hasStakeAccount.
OnAccountInfoIgnoresProgram(s, program) ==
  LET s0 == IF s.impl = "retry" \/ s.entry = "withRetry"
            THEN WithRetryReturn(s) ELSE s
      s1 == [s0 EXCEPT !.accountInfo = program]
  IN IF s.entry = "withRetry"
     THEN Finish(s1, "returned", "")
     ELSE HasStakeAccount(s1, "has1")

\* What follows the account lookup (part_001:145-155, index.js:126-142).
OnAccountInfo(s, program) ==
  LET s0 == IF s.impl = "retry" \/ s.entry = "withRetry"
            THEN WithRetryReturn(s) ELSE s
      s1 == [s0 EXCEPT !.accountInfo = program]
  IN IF s.entry = "withRetry"
     THEN Finish(s1, "returned", "")
     ELSE IF program = "stake"
          THEN GetSignaturesForAddress([s1 EXCEPT !.branch = "stake"],
                                       s.addresses[s.idx], "own")
          ELSE HasStakeAccount(s1, "has1")

\* What follows a getStakeAccountsForAddress that returned { stakeAccounts }
\* (part_001:42-44, 82-89, 155-163, 180-191; index.js likewise).
AfterStakeAccounts(s, stakeAccounts) ==
  CASE s.phase = "has1" ->
         IF stakeAccounts # <<>>
         THEN GetSignaturesForAddress([s EXCEPT !.branch = "authority",
                                                !.found = stakeAccounts],
                                      s.addresses[s.idx], "own")
         ELSE HasStakeAccount(s, "has2")
    [] s.phase = "has2" ->
         IF ~(stakeAccounts # <<>>) /\ s.accountInfo # "stake"
         THEN GetSignaturesForAddress([s EXCEPT !.branch = "normal"],
                                      s.addresses[s.idx], "own")
         ELSE EndAddress(Emit([s EXCEPT !.branch = "invalid"],
                              Ev("log", s.idx, 0, 0, 0, "invalid address")))
    [] s.phase = "assoc" ->
         LET s1 == IF s.impl = "retry" THEN WithRetryReturn(s) ELSE s
         IN StakeLoop(Emit([s1 EXCEPT !.associatedStakeAccounts = stakeAccounts,
                                      !.k = 1],
                           Ev("log", Len(stakeAccounts), 0, 0, 0,
                              "Found associated stake accounts")))

\* Faulty variant: a scan that finds nothing counts as a failed attempt.
OnProgramAccountsEmptyFails(s, stakeAccounts) ==
  IF s.impl = "retry"
  THEN IF stakeAccounts = <<>>
       THEN WithRetryCatch(s, "No stake accounts found")
       ELSE AfterStakeAccounts(WithRetryReturn(s), stakeAccounts)
  ELSE IF stakeAccounts = <<>> /\ s.scanAttempt < IndexStakeMaxAttempts
       THEN Emit([s EXCEPT !.await = "timer"],
                 Ev("wait", IndexStakeDelay, s.scanAttempt, 0, 0, ""))
       ELSE AfterStakeAccounts(s, stakeAccounts)

\* getStakeAccountsForAddress after the scan answered (part_001:55-73,
\* index.js:33-61).
OnProgramAccounts(s, stakeAccounts) ==
  IF s.impl = "retry"
  THEN AfterStakeAccounts(WithRetryReturn(s), stakeAccounts)
  ELSE IF stakeAccounts = <<>> /\ s.scanAttempt < IndexStakeMaxAttempts - 1
       THEN Emit([s EXCEPT !.await = "timer"],
                 Ev("wait", IndexStakeDelay, s.scanAttempt, 0, 0, ""))
       ELSE AfterStakeAccounts(s, stakeAccounts)

(***************************************************************************)
(* readAddressesFromFile (part_001:120-137, index.js:100-119) and main.     *)
(***************************************************************************)
IsSpace(c) == c \in {" ", "\n"}

\* String.prototype.trim.
RECURSIVE TrimStart(_)
TrimStart(q) ==
  IF q # <<>> /\ IsSpace(Head(q)) THEN TrimStart(Tail(q)) ELSE q

RECURSIVE TrimEnd(_)
TrimEnd(q) ==
  IF q # <<>> /\ IsSpace(Last(q)) THEN TrimEnd(SubSeq(q, 1, Len(q) - 1)) ELSE q

Trim(q) == TrimEnd(TrimStart(q))

\* String.prototype.split('\n'): the pieces between the line feeds, one
\* empty piece for the empty string.
RECURSIVE Split(_)
Split(q) ==
  IF \E i \in 1..Len(q) : q[i] = "\n"
  THEN LET i == CHOOSE i \in 1..Len(q) :
                   q[i] = "\n" /\ \A j \in 1..(i - 1) : q[j] # "\n"
       IN <<SubSeq(q, 1, i - 1)>> \o Split(SubSeq(q, i + 1, Len(q)))
  ELSE <<q>>

\* isValidSolanaAddress: new PublicKey(address) does not throw, the text is
\* that of one address and nothing else.
IsValidSolanaAddress(address) ==
  Len(address) = 1 /\ address[1] \in Accounts

\* Faulty variant: the addresses are collected in an array, not in a Set.
RECURSIVE LoadLinesKeepsDuplicates(_, _)
LoadLinesKeepsDuplicates(s, lines) ==
  IF lines = <<>> THEN s
  ELSE LET address == Trim(Head(lines))
       IN LoadLinesKeepsDuplicates(
            IF IsValidSolanaAddress(address)
            THEN [s EXCEPT !.addresses = Append(@, address[1])]
            ELSE Emit(s, Ev("log", 0, 0, 0, 0, "Invalid address, skipping")),
            Tail(lines))

\* The for loop over the lines (part_001:126-133, index.js:106-113); the
\* Set keeps its members in the order of their first insertion.
RECURSIVE LoadLines(_, _)
LoadLines(s, lines) ==
  IF lines = <<>> THEN s
  ELSE LET address == Trim(Head(lines))
       IN LoadLines(
            IF IsValidSolanaAddress(address)
            THEN IF \E i \in 1..Len(s.addresses) : s.addresses[i] = address[1]
                 THEN s
                 ELSE [s EXCEPT !.addresses = Append(@, address[1])]
            ELSE Emit(s, Ev("log", 0, 0, 0, 0, "Invalid address, skipping")),
            Tail(lines))

\* readAddressesFromFile up to its first await (part_001:120-123,
\* index.js:100-104).
ReadAddressesFromFile(s) ==
  LET s1 == [s EXCEPT !.phase = "read"]
  IN IF s.impl = "retry"
     THEN WithRetry(s1, DefaultMaxAttempts, DefaultDelay)
     ELSE IssueRead(s1)

\* What follows the read of the file (part_001:124-135, index.js:105-118)
\* and, in main, the return of readAddressesFromFile (part_001:213-215,
\* index.js:199-202).
OnReadFile(s, data) ==
  LET s1 == LoadLines([s EXCEPT !.addresses = <<>>], Split(Trim(data)))
      s2 == IF s.impl = "retry" THEN WithRetryReturn(s1) ELSE s1
  IN IF s.entry = "main"
     THEN StartAddress(Emit(s2, Ev("log", Len(s2.addresses), 0, 0, 0,
                                   "Processing addresses")))
     ELSE Finish(s2, "returned", "")

\* A timer set by a wait fires (part_001:17-19 and 8; index.js:57 and 32).
OnTimer(s) ==
  IF s.impl = "retry" \/ s.entry = "withRetry"
  THEN WithRetryResume(s)
  ELSE IssueRpc([s EXCEPT !.scanAttempt = @ + 1], "getProgramAccounts")

\* An RPC call is rejected with error.
OnReject(s, error) ==
  LET s1 == Emit([s EXCEPT !.refetched =
                       @ \/ (s.phase \in {"own", "stake"} /\ s.batches # <<>>)],
                 Ev("reject", s.idx, 0, 0, 0, error))
  IN IF s.stack # <<>> THEN WithRetryCatch(s1, error) ELSE Uncaught(s1, error)

(***************************************************************************)
(* The state machine.                                                      *)
(***************************************************************************)
\* The program state at the start of a turn.
Begin == [Cur EXCEPT !.events = <<>>]

Install(s) ==
  /\ phase' = s.phase
  /\ await' = s.await
  /\ idx' = s.idx
  /\ accountInfo' = s.accountInfo
  /\ branch' = s.branch
  /\ target' = s.target
  /\ signatures' = s.signatures
  /\ lastSignature' = s.lastSignature
  /\ associatedStakeAccounts' = s.associatedStakeAccounts
  /\ k' = s.k
  /\ totalTransactions' = s.totalTransactions
  /\ stack' = s.stack
  /\ scanAttempt' = s.scanAttempt
  /\ result' = s.result
  /\ batches' = s.batches
  /\ events' = s.events
  /\ outcomes' = s.outcomes
  /\ startTotal' = s.startTotal
  /\ refetched' = s.refetched
  /\ found' = s.found
  /\ counted' = s.counted

InitFrom(s) ==
  /\ phase = s.phase
  /\ await = s.await
  /\ idx = s.idx
  /\ accountInfo = s.accountInfo
  /\ branch = s.branch
  /\ target = s.target
  /\ signatures = s.signatures
  /\ lastSignature = s.lastSignature
  /\ associatedStakeAccounts = s.associatedStakeAccounts
  /\ k = s.k
  /\ totalTransactions = s.totalTransactions
  /\ stack = s.stack
  /\ scanAttempt = s.scanAttempt
  /\ result = s.result
  /\ batches = s.batches
  /\ events = s.events
  /\ outcomes = s.outcomes
  /\ startTotal = s.startTotal
  /\ refetched = s.refetched
  /\ found = s.found
  /\ counted = s.counted

\* The program before its entry point is called.
Fresh(i, e, addrs) ==
  [impl |-> i, entry |-> e, addresses |-> addrs,
   phase |-> "none", await |-> "none", idx |-> 1, accountInfo |-> "none",
   branch |-> "none", target |-> "none", signatures |-> <<>>,
   lastSignature |-> Null, associatedStakeAccounts |-> <<>>, k |-> 0,
   totalTransactions |-> 0, stack |-> <<>>, scanAttempt |-> 0,
   result |-> [status |-> "none", error |-> ""], batches |-> <<>>,
   events |-> <<>>, outcomes |-> <<>>, startTotal |-> 0,
   refetched |-> FALSE, found |-> <<>>, counted |-> <<>>]

\* The address lists: validated, each address once (readAddressesFromFile
\* returns Array.from of a Set).
AddressLists ==
  UNION {Orders(S) : S \in {T \in SUBSET Accounts : Cardinality(T) <= MaxAddresses}}

\* The ledgers: which accounts are stake accounts, the authority field of
\* each, and every account's history.
StakeCandidates == {"S", "T"}

InitLedger ==
  /\ stakeAccts \in SUBSET StakeCandidates
  /\ authority \in [stakeAccts -> Accounts \cup {Other}]

\* The histories of the runs with failing calls: one page, a full page and
\* an empty one, a full page and a short one.
FixedHistory ==
  [a \in Accounts |->
     Desc(CASE a = "A" -> PageLimit [] a = "S" -> 1 [] OTHER -> PageLimit + 1)]

\* getTotalTransactionCount(connection, addresses) is called.
Init ==
  /\ impl \in {"retry", "index"}
  /\ entry = "getTotalTransactionCount"
  /\ addresses \in AddressLists
  /\ InitLedger
  /\ history = FixedHistory
  /\ file = <<>>
  /\ changed = FALSE
  /\ InitFrom(StartAddress(Fresh(impl, entry, addresses)))

\* The same call, every account with an empty history, a full page or a
\* full page and one record.
InitReliable ==
  /\ impl \in {"retry", "index"}
  /\ entry = "getTotalTransactionCount"
  /\ addresses \in AddressLists
  /\ InitLedger
  /\ history \in [Accounts -> {Desc(n) : n \in {0, PageLimit, PageLimit + 1}}]
  /\ file = <<>>
  /\ changed = FALSE
  /\ InitFrom(StartAddress(Fresh(impl, entry, addresses)))

\* connection.getParsedAccountInfo answers.
AccountInfoResolves ==
  /\ await = "rpc"
  /\ phase = "info"
  /\ Install(OnAccountInfo(Begin, LedgerProgram(target)))
  /\ UNCHANGED envVars

\* connection.getProgramAccounts answers, its matches in some order.
ProgramAccountsResolves ==
  /\ await = "rpc"
  /\ phase \in {"has1", "has2", "assoc"}
  /\ \E stakeAccounts \in Orders(LedgerStakeAccounts(addresses[idx])) :
        Install(OnProgramAccounts(Begin, stakeAccounts))
  /\ UNCHANGED envVars

\* connection.getSignaturesForAddress answers.
SignaturesResolve ==
  /\ await = "rpc"
  /\ phase \in {"own", "stake"}
  /\ Install(OnSignatures(Begin,
        LedgerSignatures(history[target], lastSignature, PageLimit)))
  /\ UNCHANGED envVars

\* An RPC call fails.
RpcRejects ==
  /\ await = "rpc"
  /\ \E error \in Errors : Install(OnReject(Begin, error))
  /\ UNCHANGED envVars

\* The timer of a wait fires.
TimerFires ==
  /\ await = "timer"
  /\ Install(OnTimer(Begin))
  /\ UNCHANGED envVars

Next ==
  \/ AccountInfoResolves
  \/ ProgramAccountsResolves
  \/ SignaturesResolve
  \/ RpcRejects
  \/ TimerFires

Spec == Init /\ [][Next]_vars

\* The same runs against a ledger that answers every call.
NextReliable ==
  \/ AccountInfoResolves
  \/ ProgramAccountsResolves
  \/ SignaturesResolve

SpecReliable == InitReliable /\ [][NextReliable]_vars

(***************************************************************************)
(* getTotalTransactionCount against a ledger that changes during the run.  *)
(***************************************************************************)
\* The authority field of a stake account is set to another address, once
\* in a run.
AuthorityChanges ==
  /\ phase # "done"
  /\ ~changed
  /\ \E x \in stakeAccts : \E a \in (Accounts \cup {Other}) \ {authority[x]} :
        authority' = [authority EXCEPT ![x] = a]
  /\ changed' = TRUE
  /\ UNCHANGED <<impl, entry, addresses, stakeAccts, history, file, progVars>>

NextLive ==
  \/ AccountInfoResolves
  \/ ProgramAccountsResolves
  \/ SignaturesResolve
  \/ AuthorityChanges

SpecLive == Init /\ [][NextLive]_vars

(***************************************************************************)
(* getSignaturesForAddress alone.                                          *)
(***************************************************************************)
\* getSignaturesForAddress(connection, "A") is called, the history of A
\* holding up to MaxHistory records.
InitFetch ==
  /\ impl \in {"retry", "index"}
  /\ entry = "getSignaturesForAddress"
  /\ addresses = <<>>
  /\ stakeAccts = {}
  /\ authority = [x \in {} |-> Other]
  /\ \E n \in 0..MaxHistory :
        history = [a \in Accounts |-> IF a = "A" THEN Desc(n) ELSE <<>>]
  /\ file = <<>>
  /\ changed = FALSE
  /\ InitFrom(GetSignaturesForAddress(Fresh(impl, entry, addresses), "A", "own"))

\* A new transaction of the account is confirmed: its signature becomes the
\* newest record of the history.
LedgerAppends ==
  /\ phase # "done"
  /\ Len(history[target]) < MaxHistory
  /\ history' = [history EXCEPT ![target] = <<Len(@) + 1>> \o @]
  /\ changed' = TRUE
  /\ UNCHANGED <<impl, entry, addresses, stakeAccts, authority, file, progVars>>

NextFetch ==
  \/ SignaturesResolve
  \/ RpcRejects
  \/ TimerFires
  \/ LedgerAppends

SpecFetch == InitFetch /\ [][NextFetch]_vars

\* The same, the ledger answering every call it does not reject and every
\* timer firing.
SpecFetchFair ==
  SpecFetch /\ WF_vars(SignaturesResolve) /\ WF_vars(TimerFires)

(***************************************************************************)
(* withRetry alone.                                                        *)
(***************************************************************************)
\* withRetry(() => connection.getParsedAccountInfo("A"), maxAttempts, delay)
\* is called.
InitRetry ==
  /\ impl = "retry"
  /\ entry = "withRetry"
  /\ addresses = <<>>
  /\ stakeAccts \in {{}, {"A"}}
  /\ authority = [x \in stakeAccts |-> Other]
  /\ history = [a \in Accounts |-> <<>>]
  /\ file = <<>>
  /\ changed = FALSE
  /\ \E maxAttempts \in 1..MaxAttemptsTried, delay \in {1, DefaultDelay} :
        InitFrom(WithRetry([Fresh(impl, entry, addresses)
                              EXCEPT !.phase = "info", !.target = "A"],
                           maxAttempts, delay))

NextRetry ==
  \/ AccountInfoResolves
  \/ RpcRejects
  \/ TimerFires

SpecRetry == InitRetry /\ [][NextRetry]_vars


(***************************************************************************)
(* readAddressesFromFile alone, and main.                                  *)
(***************************************************************************)
\* The files of up to MaxFileLen tokens.
Files == UNION {[1..n -> FileChars] : n \in 0..MaxFileLen}

\* readAddressesFromFile('./addresses.txt') is called.
InitLoad ==
  /\ impl \in {"retry", "index"}
  /\ entry = "readAddressesFromFile"
  /\ addresses = <<>>
  /\ stakeAccts = {}
  /\ authority = [x \in {} |-> Other]
  /\ history = [a \in Accounts |-> <<>>]
  /\ file \in Files
  /\ changed = FALSE
  /\ InitFrom(ReadAddressesFromFile(Fresh(impl, entry, addresses)))

\* fs.promises.readFile answers with the content of the file.
ReadResolves ==
  /\ await = "file"
  /\ LET s == OnReadFile(Begin, file)
     IN addresses' = s.addresses /\ Install(s)
  /\ UNCHANGED <<impl, entry, stakeAccts, authority, history, file, changed>>

\* fs.promises.readFile fails.
ReadRejects ==
  /\ await = "file"
  /\ \E error \in FileErrors : Install(OnReject(Begin, error))
  /\ UNCHANGED envVars

NextLoad ==
  \/ ReadResolves
  \/ ReadRejects
  \/ TimerFires

SpecLoad == InitLoad /\ [][NextLoad]_vars

\* The files of the runs of main: no line, one address, an authority and
\* its stake account, an invalid line and an address.
MainFiles ==
  {<<>>, <<"A">>, <<"A", "\n", "S">>, <<"x", "\n", "T">>}

\* main is called: S is a stake account whose authority is A.
InitMain ==
  /\ impl \in {"retry", "index"}
  /\ entry = "main"
  /\ addresses = <<>>
  /\ stakeAccts = {"S"}
  /\ authority = [x \in {"S"} |-> "A"]
  /\ history = FixedHistory
  /\ file \in MainFiles
  /\ changed = FALSE
  /\ InitFrom(ReadAddressesFromFile(Fresh(impl, entry, addresses)))

NextMain ==
  \/ ReadResolves
  \/ ReadRejects
  \/ AccountInfoResolves
  \/ ProgramAccountsResolves
  \/ SignaturesResolve
  \/ RpcRejects
  \/ TimerFires

SpecMain == InitMain /\ [][NextMain]_vars

(***************************************************************************)
(* The claims.                                                             *)
(***************************************************************************)
RECURSIVE SumLens(_)
SumLens(S) ==
  IF S = {} THEN 0
  ELSE LET x == CHOOSE x \in S : TRUE
       IN Len(history[x]) + SumLens(S \ {x})

\* What the specification lets an address add: its own history and, when it
\* is no stake account and has associated stake accounts, theirs.
Contribution(a) ==
  Len(history[a])
  + (IF a \notin stakeAccts /\ LedgerStakeAccounts(a) # {}
     THEN SumLens(LedgerStakeAccounts(a)) ELSE 0)

RECURSIVE SumContributions(_)
SumContributions(addrs) ==
  IF addrs = <<>> THEN 0
  ELSE Contribution(Head(addrs)) + SumContributions(Tail(addrs))

RECURSIVE SumAdded(_)
SumAdded(os) == IF os = <<>> THEN 0 ELSE Head(os).added + SumAdded(Tail(os))

Returned == phase = "done" /\ result.status = "returned"

\* C1: when no RPC call fails and the ledger does not change,
\* getTotalTransactionCount (both versions) returns the sum over the
\* addresses of the address's own history length plus, for an address that
\* is no stake account and has associated stake accounts, the history
\* lengths of these.
C1_TotalIsSumOfContributions ==
  phase = "done" =>
    /\ result.status = "returned"
    /\ totalTransactions = SumContributions(addresses)

\* A returned run over a list that holds an authority whose stake accounts
\* added to the total.
C1_Witness ==
  /\ Returned
  /\ \E i \in 1..Len(addresses) :
        /\ addresses[i] \notin stakeAccts
        /\ LedgerStakeAccounts(addresses[i]) # {}
        /\ outcomes[i].added > Len(history[addresses[i]])

\* C2: in the retry version a failure that survives its retries never stops
\* the run: the function returns, every address has been processed, the
\* total holds the full contribution of every address that did not fail,
\* and a failure while classifying (account lookup, stake scans) adds
\* nothing for the failed address.
C2_FailureDoesNotStopRun ==
  impl = "retry" =>
    /\ phase # "done" => await \in {"rpc", "timer"}
    /\ phase \in {"info", "has1", "has2"} => totalTransactions = startTotal
    /\ phase = "done" =>
         /\ result.status = "returned"
         /\ Len(outcomes) = Len(addresses)
         /\ \A i \in 1..Len(addresses) :
               ~outcomes[i].failed =>
                  outcomes[i].added = Contribution(addresses[i])
         /\ totalTransactions = SumAdded(outcomes)

\* Three addresses, the second failed without adding anything, the total is
\* what the first and the third contribute.
C2_Witness ==
  /\ impl = "retry"
  /\ Returned
  /\ Len(addresses) = 3
  /\ ~outcomes[1].failed /\ outcomes[2].failed /\ ~outcomes[3].failed
  /\ totalTransactions = Contribution(addresses[1]) + Contribution(addresses[3])
  /\ totalTransactions > 0

\* C3: an address whose processing ends in a per-address failure adds
\* nothing to the total.
C3_FailedAddressAddsNothing ==
  \A i \in 1..Len(outcomes) : outcomes[i].failed => outcomes[i].added = 0


\* C4: withRetry invokes the operation min(k, maxAttempts) times, k the
\* first successful attempt: it returns the value of the first success after
\* k invocations and k - 1 failures and does nothing after it; when all
\* maxAttempts attempts fail it throws the failure of the last attempt after
\* exactly maxAttempts invocations; attempt maxAttempts + 1 is never made.
C4_RetryInvocations ==
  /\ \A i \in 1..Len(stack) :
        /\ stack[i].calls = stack[i].attempt
        /\ stack[i].attempt <= stack[i].max
        /\ stack[i].fails = IF await = "timer" THEN stack[i].attempt
                            ELSE stack[i].attempt - 1
  /\ \A i \in 1..Len(events) :
        /\ events[i].ev = "return" =>
              /\ events[i].n = events[i].f + 1
              /\ events[i].n <= events[i].m
              /\ Returned
              /\ accountInfo = LedgerProgram(target)
        /\ events[i].ev = "throw" =>
              /\ events[i].n = events[i].m
              /\ events[i].f = events[i].m
              /\ events[1].ev = "reject"
              /\ events[i].e = events[1].e
              /\ phase = "done"
              /\ result = [status |-> "threw", error |-> events[1].e]
  /\ phase = "done" =>
        /\ stack = <<>>
        /\ ~ENABLED NextRetry
        /\ \E i \in 1..Len(events) : events[i].ev \in {"return", "throw"}

\* The operation failed twice and succeeded at the third of three attempts.
C4_Witness ==
  /\ Returned
  /\ \E i \in 1..Len(events) :
        /\ events[i].ev = "return"
        /\ events[i].n = 3 /\ events[i].m = 3 /\ events[i].f = 2

\* C5: with initial delay d the wait after failed attempt j is d * 2^(j-1);
\* there is one wait between two consecutive attempts, none after the last
\* failed attempt and none after a success.
C5_Backoff ==
  /\ \A i \in 1..Len(stack) :
        LET f == stack[i]
        IN /\ \A j \in 1..Len(f.waits) : f.waits[j] = f.initialDelay * 2^(j - 1)
           /\ Len(f.waits) = IF await = "timer" THEN f.calls ELSE f.calls - 1
           /\ Len(f.waits) <= f.max - 1
  /\ \A i \in 1..Len(events) :
        /\ events[i].ev = "wait" =>
              /\ i = Len(events)
              /\ await = "timer"
              /\ events[i].n = Last(Top(Cur).waits)
        /\ events[i].ev = "return" =>
              /\ events[i].w = events[i].n - 1
              /\ \A j \in 1..Len(events) : events[j].ev # "wait"
        /\ events[i].ev = "throw" =>
              /\ events[i].w = events[i].m - 1
              /\ \A j \in 1..Len(events) : events[j].ev # "wait"

\* Three waits of a call with delay 1000 are over: 1000, 2000, 4000.
C5_Witness ==
  /\ await = "rpc"
  /\ stack # <<>>
  /\ Top(Cur).waits = <<1000, 2000, 4000>>

\* C6: every failure is reported before the next action.  In the turn of a
\* rejected call the report of attempt j (attempt, maxAttempts, reason)
\* follows the failure at once and precedes the wait, which ends the turn,
\* or the throw; what withRetry throws is caught and reported by the
\* enclosing withRetry or by the loop body; and no operation is invoked and
\* no RPC call issued after a failure before the loop body has reported it,
\* the calls that follow being those of the next address.
C6_FailuresReportedFirst ==
  impl = "retry" =>
    \A i \in 1..Len(events) :
      /\ events[i].ev = "reject" =>
            /\ i < Len(events)
            /\ events[i + 1].ev = "report"
            /\ events[i + 1].e = events[i].e
      /\ events[i].ev = "report" =>
            /\ i > 1 /\ i < Len(events)
            /\ events[i - 1].ev \in {"reject", "throw"}
            /\ events[i - 1].e = events[i].e
            /\ events[i + 1].ev \in {"wait", "throw"}
      /\ events[i].ev = "wait" =>
            /\ i = Len(events)
            /\ events[i - 1].ev = "report"
            /\ await = "timer"
            /\ events[i - 1].n = Top(Cur).attempt
            /\ events[i - 1].m = Top(Cur).max
            /\ events[i - 1].e = Top(Cur).lastError
            /\ events[i - 1].n < events[i - 1].m
      /\ events[i].ev = "throw" =>
            /\ events[i - 1].ev = "report"
            /\ events[i - 1].n = events[i].m
            /\ events[i - 1].m = events[i].m
            /\ events[i - 1].e = events[i].e
            /\ i < Len(events)
            /\ events[i + 1].ev \in {"report", "error"}
            /\ events[i + 1].e = events[i].e
      /\ events[i].ev = "error" =>
            /\ events[i - 1].ev = "throw"
            /\ events[i].n = idx - 1
      /\ events[i].ev \in {"invoke", "rpc"} =>
            /\ \A j \in 1..(i - 1) :
                  events[j].ev = "reject" =>
                     \E r \in (j + 1)..(i - 1) : events[r].ev = "error"
            /\ events[i].ev = "rpc" => events[i].n = idx

\* A failure left both withRetry calls of getAssociatedStakeAccounts, was
\* reported by each and by the loop body, and the lookup of the next
\* address was issued after that.
C6_Witness ==
  /\ impl = "retry"
  /\ \E i, j, r \in 1..Len(events) :
        /\ i + 2 < j /\ j < r
        /\ events[i].ev = "throw" /\ events[i].m = StakeMaxAttempts
        /\ events[i + 2].ev = "throw" /\ events[i + 2].m = DefaultMaxAttempts
        /\ events[j].ev = "error"
        /\ events[r].ev = "rpc" /\ events[r].n = events[j].n + 1


\* C7: getSignaturesForAddress keeps fetching while the batch returned is
\* full and stops at the first batch that is not; it returns the batches of
\* the attempt concatenated in the order fetched, after one ledger call per
\* full batch and one more.
C7_PaginationConcatenates ==
  /\ signatures = Flatten(batches)
  /\ (phase # "done" /\ await = "rpc") =>
        \A i \in 1..Len(batches) : Len(batches[i]) = PageLimit
  /\ Returned =>
        /\ batches # <<>>
        /\ \A i \in 1..(Len(batches) - 1) : Len(batches[i]) = PageLimit
        /\ Len(Last(batches)) < PageLimit
        /\ Len(signatures) =
              (Len(batches) - 1) * PageLimit + Len(Last(batches))

\* Two full batches and a short one: three calls.
C7_Witness ==
  /\ Returned
  /\ Len(batches) = 3
  /\ Len(batches[3]) > 0
  /\ Len(signatures) = 2 * PageLimit + Len(batches[3])

\* C8: the first fetch of an attempt has no cursor and every later fetch
\* has the signature of the last record of the batch before it as cursor;
\* so a history that does not change is returned complete, newest first,
\* each record once.
C8_CursorAndCompleteHistory ==
  /\ (phase # "done" /\ await = "rpc") =>
        lastSignature = IF batches = <<>> THEN Null ELSE Last(Last(batches))
  /\ (Returned /\ ~changed) => signatures = history[target]

\* A history of two full pages, returned complete by three fetches.
C8_Witness ==
  /\ Returned
  /\ ~changed
  /\ Len(history[target]) = 2 * PageLimit
  /\ signatures = history[target]
  /\ Len(batches) = 3

\* Against a history that does not change a fetch is pending only while the
\* full batches fetched so far fit in the history, and the ledger's answer
\* ends the wait; the loop ends after (history length div page size) + 1
\* fetches, on an empty batch when the length is a multiple of the page
\* size.  The call ends by a throw only in the turn of a rejected call.
C9_FetchesBounded ==
  /\ ~changed =>
       /\ (phase # "done" /\ await = "rpc") =>
             /\ Len(batches) * PageLimit <= Len(history[target])
             /\ ENABLED SignaturesResolve
       /\ Returned =>
             /\ Len(batches) = (Len(history[target]) \div PageLimit) + 1
             /\ (Len(history[target]) % PageLimit = 0) => Last(batches) = <<>>
  /\ (phase = "done" /\ ~Returned) => events[1].ev = "reject"

\* C9: the pagination loop of getSignaturesForAddress terminates: when the
\* ledger answers every call and timers fire, the call ends, and against a
\* history that does not change it ends, unless a call was rejected, by
\* returning after (history length div page size) + 1 fetches.
C9_PaginationTerminates == <>(phase = "done") /\ []C9_FetchesBounded

\* A fetch that ended on an empty batch after a full one.
C9_Witness ==
  /\ Returned
  /\ ~changed
  /\ Len(history[target]) >= PageLimit
  /\ Len(history[target]) % PageLimit = 0
  /\ Last(batches) = <<>>

\* C10: the fetch is one retryable unit: an attempt after a failure starts
\* with no cursor and an empty accumulator, so what is returned holds the
\* batches of the successful attempt only, as many records as the history
\* when this did not change.
C10_RetryRestartsFetch ==
  impl = "retry" =>
    /\ (events # <<>> /\ events[1].ev = "invoke" /\ events[1].n > 1) =>
          /\ await = "rpc"
          /\ signatures = <<>>
          /\ lastSignature = Null
    /\ Returned =>
          /\ signatures = Flatten(batches)
          /\ ~changed => Len(signatures) = Len(history[target])

\* A fetch that returned the history after an attempt had failed on a
\* later page.
C10_Witness ==
  /\ impl = "retry"
  /\ Returned
  /\ refetched
  /\ ~changed
  /\ Len(history[target]) > PageLimit
  /\ Len(signatures) = Len(history[target])

\* The two signals of the classifier, as the ledger gives them.
IsStakeAccountItself(a) == LedgerProgram(a) = "stake"
HasAssociatedStakeAccounts(a) == LedgerStakeAccounts(a) # {}

\* C11: with signals that agree and calls that do not fail an address is
\* handled by the decision table: a stake account without associated stake
\* accounts as StakeAccount (own history only), an address that is no stake
\* account and has associated stake accounts as AuthorityAccount (own
\* history and the history of each associated stake account), an address
\* with neither as NormalAccount (own history only).
C11_DecisionTable ==
  /\ \A i \in 1..Len(events) : events[i].e # "invalid address"
  /\ phase \in {"own", "assoc", "stake"} =>
        LET a == addresses[idx]
        IN /\ (IsStakeAccountItself(a) /\ ~HasAssociatedStakeAccounts(a)) =>
                 branch = "stake" /\ phase = "own" /\ target = a
           /\ (~IsStakeAccountItself(a) /\ HasAssociatedStakeAccounts(a)) =>
                 /\ branch = "authority"
                 /\ phase = "own" => target = a
                 /\ phase = "stake" =>
                       /\ target \in LedgerStakeAccounts(a)
                       /\ {associatedStakeAccounts[j] :
                              j \in 1..Len(associatedStakeAccounts)}
                            = LedgerStakeAccounts(a)
           /\ (~IsStakeAccountItself(a) /\ ~HasAssociatedStakeAccounts(a)) =>
                 branch = "normal" /\ phase = "own" /\ target = a
  /\ \A i \in 1..Len(outcomes) :
        LET a == addresses[i]
        IN /\ (IsStakeAccountItself(a) /\ ~HasAssociatedStakeAccounts(a)) =>
                 outcomes[i] = [failed |-> FALSE, added |-> Len(history[a])]
           /\ (~IsStakeAccountItself(a) /\ HasAssociatedStakeAccounts(a)) =>
                 outcomes[i] = [failed |-> FALSE,
                                added |-> Len(history[a])
                                          + SumLens(LedgerStakeAccounts(a))]
           /\ (~IsStakeAccountItself(a) /\ ~HasAssociatedStakeAccounts(a)) =>
                 outcomes[i] = [failed |-> FALSE, added |-> Len(history[a])]

\* A returned run over a stake account, an authority and a normal account,
\* each with a history, the authority having added more than its own.
C11_Witness ==
  /\ Returned
  /\ \E i, j, l \in 1..Len(addresses) :
        /\ IsStakeAccountItself(addresses[i])
        /\ ~HasAssociatedStakeAccounts(addresses[i])
        /\ outcomes[i].added = Len(history[addresses[i]])
        /\ outcomes[i].added > 0
        /\ ~IsStakeAccountItself(addresses[j])
        /\ HasAssociatedStakeAccounts(addresses[j])
        /\ outcomes[j].added > Len(history[addresses[j]])
        /\ Len(history[addresses[j]]) > 0
        /\ ~IsStakeAccountItself(addresses[l])
        /\ ~HasAssociatedStakeAccounts(addresses[l])
        /\ outcomes[l].added = Len(history[addresses[l]])
        /\ outcomes[l].added > 0

\* C12: an address that is a stake account and has associated stake
\* accounts is skipped: no signature history is fetched for it and it adds
\* nothing to the total.
C12_IndeterminateSkipped ==
  /\ phase \in {"own", "assoc", "stake"} =>
        ~(IsStakeAccountItself(addresses[idx])
          /\ HasAssociatedStakeAccounts(addresses[idx]))
  /\ \A i \in 1..Len(outcomes) :
        (IsStakeAccountItself(addresses[i])
         /\ HasAssociatedStakeAccounts(addresses[i])) => outcomes[i].added = 0

\* The lines of the file: the stretches of tokens that hold no line feed and
\* lie between two line feeds or an end of the file.
FileLines ==
  {SubSeq(file, ij[1], ij[2]) : ij \in
     {ij \in (1..(Len(file) + 1)) \X (0..Len(file)) :
        /\ ij[1] <= ij[2] + 1
        /\ (ij[1] = 1 \/ file[ij[1] - 1] = "\n")
        /\ (ij[2] = Len(file) \/ file[ij[2] + 1] = "\n")
        /\ \A n \in ij[1]..ij[2] : file[n] # "\n"}}

\* The addresses of the lines that are an address between blanks.
ValidAddressesOfFile ==
  {a \in Accounts :
     \E line \in FileLines : \E i \in 1..Len(line) :
        /\ line[i] = a
        /\ \A j \in 1..Len(line) : j # i => line[j] = " "}

\* C13: when the read succeeds readAddressesFromFile returns the distinct
\* trimmed lines that are valid addresses, each once, and no other line; a
\* line that is not valid does not make the call throw, and the file is not
\* read again after a read that succeeded.
C13_LoadReturnsDistinctValidLines ==
  /\ Returned =>
        /\ {addresses[i] : i \in 1..Len(addresses)} = ValidAddressesOfFile
        /\ \A i, j \in 1..Len(addresses) : addresses[i] = addresses[j] => i = j
        /\ ~ENABLED NextLoad
        /\ impl = "retry" =>
              /\ Last(events).ev = "return"
              /\ Last(events).n = Last(events).f + 1
              /\ \A i \in 1..Len(events) :
                    events[i].ev \notin {"reject", "report", "wait", "throw", "read"}
        /\ impl = "index" =>
              \A i \in 1..Len(events) : events[i].ev = "log"
  /\ (phase = "done" /\ ~Returned) => events[1].ev = "reject"
  /\ (phase # "done" /\ await = "file") =>
        /\ addresses = <<>>
        /\ stack # <<>> => Top(Cur).calls = Top(Cur).fails + 1

\* A file with an address on two lines and a line that is no address, read
\* at the first attempt: the address is returned once.
C13_Witness ==
  /\ Returned
  /\ Len(addresses) = 1
  /\ Cardinality(FileLines) >= 2
  /\ \E i, j \in 1..Len(file) : i < j /\ file[i] = file[j] /\ file[i] \in Accounts
  /\ \E i \in 1..Len(file) : file[i] = "x"
  /\ impl = "retry" => Last(events).n = 1

C15_ExitOnlyWhenLoadFails ==
  impl = "retry" =>
    /\ phase # "done" => await \in {"file", "rpc", "timer"}
    /\ phase = "read" =>
          /\ Len(stack) = 1
          /\ Top(Cur).fails < DefaultMaxAttempts
          /\ addresses = <<>>
    /\ \A i \in 1..Len(events) :
          (events[i].ev = "throw" /\ events[i].e \in FileErrors) =>
             /\ events[i].f = DefaultMaxAttempts
             /\ events[i].n = DefaultMaxAttempts
             /\ phase = "done" /\ result.status = "exit"
    /\ phase = "done" =>
          /\ result.status \in {"exit", "returned"}
          /\ result.status = "exit" =>
                /\ Len(events) = 4
                /\ events[1].ev = "reject" /\ events[1].e \in FileErrors
                /\ events[3].ev = "throw" /\ events[3].e = events[1].e
                /\ events[4] = Ev("fatal", 1, 0, 0, 0, events[1].e)
                /\ addresses = <<>> /\ idx = 1 /\ outcomes = <<>>
                /\ counted = <<>> /\ totalTransactions = 0
                /\ accountInfo = "none"
          /\ result.status = "returned" =>
                /\ Last(events) =
                      Ev("log", totalTransactions, 0, 0, 0, "Total transactions")
                /\ Len(outcomes) = Len(addresses)
                /\ \A i \in 1..Len(events) : events[i].ev # "fatal"

\* The read failed twenty times and main exited before any address.
C15_Witness ==
  /\ impl = "retry"
  /\ phase = "done"
  /\ result.status = "exit"
  /\ \E i \in 1..Len(events) :
        events[i].ev = "throw" /\ events[i].f = DefaultMaxAttempts

\* C16: within one call of hasStakeAccount or getAssociatedStakeAccounts
\* the scan is invoked at most StakeMaxAttempts (3) times, and a failure of
\* all of them is handed to the loop body without another run of the scans
\* by an enclosing withRetry.
C16_ScanRetriedOnlyToItsMaximum ==
  impl = "retry" =>
    /\ (phase \in {"has1", "has2"} /\ stack # <<>>) =>
          Len(stack) = 1 /\ stack[1].calls <= StakeMaxAttempts
    /\ (phase = "assoc" /\ Len(stack) = 2) =>
          (stack[1].calls - 1) * StakeMaxAttempts + stack[2].calls
             <= StakeMaxAttempts
    /\ \A i \in 1..Len(events) :
          (events[i].ev = "throw" /\ events[i].m = StakeMaxAttempts) =>
             /\ i + 1 <= Len(events)
             /\ events[i + 1].ev = "error"

\* C17: an address that is no stake account and whose first scan found no
\* stake account is processed as a normal account, its own history length
\* being added, whatever the second scan returns; no address reaches the
\* 'invalid address' branch.
C17_FirstEvaluationDecides ==
  /\ branch # "invalid"
  /\ \A i \in 1..Len(events) : events[i].e # "invalid address"
  /\ \A i \in 1..Len(outcomes) :
        (addresses[i] \notin stakeAccts /\ ~outcomes[i].failed) =>
           outcomes[i].added >= Len(history[addresses[i]])

\* C18: the stake accounts whose histories are fetched for an authority are
\* those the classifying scan found, at least one.
C18_StakeAccountsAreThoseFound ==
  /\ \A i \in 1..Len(events) :
        events[i].e = "Found associated stake accounts" => events[i].n >= 1
  /\ phase = "stake" =>
        {associatedStakeAccounts[i] : i \in 1..Len(associatedStakeAccounts)}
          = {found[i] : i \in 1..Len(found)}

\* C19: in one run over a list without duplicates the history of an account
\* is added to the total at most once.
C19_EachAccountCountedOnce ==
  \A i, j \in 1..Len(counted) :
     (counted[i] = counted[j] /\ i # j) => Len(history[counted[i]]) = 0

\* C20: the running total starts at 0, is a natural number and never
\* decreases; it changes only in the turn in which the last fetch of a
\* getSignaturesForAddress call answers, by the number of signatures the
\* call returns; a rejected call, a wait and a retry leave it unchanged.
C20_TotalOnlyGrowsByFetches ==
  /\ totalTransactions = 0
  /\ [](totalTransactions \in Nat)
  /\ [][/\ totalTransactions' >= totalTransactions
        /\ totalTransactions' # totalTransactions =>
              /\ phase \in {"own", "stake"}
              /\ await = "rpc"
              /\ events'[1].ev # "reject"
              /\ LET fetched ==
                       LedgerSignatures(history[target], lastSignature, PageLimit)
                 IN /\ Len(fetched) < PageLimit
                    /\ totalTransactions' =
                          totalTransactions + Len(signatures) + Len(fetched)
              /\ counted' = Append(counted, target)
        /\ (await = "timer" \/ events'[1].ev = "reject"
              \/ phase \notin {"own", "stake"}) =>
              totalTransactions' = totalTransactions]_vars

\* The history of an authority has been added and the fetch of the history
\* of its stake account waits for a retry.
C20_Witness ==
  /\ phase = "stake"
  /\ await = "timer"
  /\ totalTransactions = startTotal + Len(history[addresses[idx]])
  /\ totalTransactions > startTotal
  /\ startTotal > 0

====
